---- MODULE Spec2Model ----
(***************************************************************************)
(* Model of learning_slam: the driver loop of main.py and the Display      *)
(* class of lib/display.py (process_frame, find_orbs, find_matches, draw). *)
(*                                                                         *)
(* A frame is one row of single-channel pixels, Width columns wide; the    *)
(* OpenCV calls are modelled by what they compute on such a row:           *)
(*   goodFeaturesToTrack  corner strength, quality threshold, local        *)
(*                        maximum, strongest-first, minimum distance;      *)
(*                        None when no corner is found                     *)
(*   circle               sets the pixels at distance radius from the      *)
(*                        centre to the marker colour, clipped             *)
(*   ORB compute          drops the keypoints within edgeThreshold of the  *)
(*                        border, one binary-test byte per keypoint        *)
(*   BFMatcher knnMatch   L2 distance, up to k nearest per query row, no   *)
(*                        rows when either side is empty                   *)
(* None is the empty sequence and a present value x is <<x>>.              *)
(***************************************************************************)
EXTENDS Integers, Sequences, FiniteSets, TLC

VARIABLES
    pc,          \* "loop" | "done" (loop left) | "exited" (exit(0)) | "crashed" (uncaught exception)
    opened,      \* capture.isOpened()
    last,        \* Display.last: None or Some([keypoints, descriptors])
    nread,       \* number of successful capture.read() calls
    failedRead,  \* a capture.read() has returned ret = False
    passed,      \* read indices of the frames handed to Display.draw, in order
    updated,     \* read indices of the frames for which draw assigned self.last
    presented,   \* read indices of the frames draw copied to the window and refreshed
    prev,        \* what find_orbs returned in the draw call before the latest one
    obs          \* what the latest draw call computed

vars == <<pc, opened, last, nread, failedRead, passed, updated, presented, prev, obs>>

\* ---- bounds ----
Width == 8        \* columns of the working frame (main.py: width), scaled down
MaxFrames == 3    \* successful reads in one run

\* ---- program constants ----
maxCorners == 3000     \* goodFeaturesToTrack(maxCorners=3000)
minDistance == 3       \* goodFeaturesToTrack(minDistance=3)
radius == 2            \* cv2.circle(radius=2)
Marker == 1            \* intensity of the marker colour (0, 255, 0), on the 0..1 scale of Pixel
edgeThreshold == 2     \* border and patch half-width of cv2.ORB_create(), scaled to Width
keypointSize == 20     \* cv2.KeyPoint(_size=20)
knnK == 2              \* knnMatch(k=2)

Pixel == {0, 1}
Frames == [1..Width -> Pixel]

None == <<>>
Some(x) == <<x>>

Abs(x) == IF x < 0 THEN -x ELSE x

\* ---- Display.process_frame ----
\* cv2.resize to (width, height): pixel-centre sampling of the source row.
process_frame(frame) ==
    [i \in 1..Width |-> frame[(((2 * i - 1) * Len(frame)) \div (2 * Width)) + 1]]

\* ---- cv2.goodFeaturesToTrack ----
Clamp(i) == IF i < 1 THEN 1 ELSE IF i > Width THEN Width ELSE i

cornerStrength(img, i) ==
    Abs(img[i] - img[Clamp(i - 1)]) + Abs(img[Clamp(i + 1)] - img[i])

SetMax(S) == CHOOSE x \in S : \A y \in S : y <= x

maxStrength(img) == SetMax({cornerStrength(img, i) : i \in 1..Width})

cornerCandidates(img) ==
    {i \in 1..Width :
        /\ 100 * cornerStrength(img, i) > maxStrength(img)
        /\ \A j \in {Clamp(i - 1), Clamp(i + 1)} :
              cornerStrength(img, j) <= cornerStrength(img, i)}

\* strongest first, the higher address first among equals
strongest(img, S) ==
    CHOOSE i \in S : \A j \in S :
        \/ cornerStrength(img, j) < cornerStrength(img, i)
        \/ cornerStrength(img, j) = cornerStrength(img, i) /\ j <= i

RECURSIVE selectCorners(_, _, _)
selectCorners(img, S, kept) ==
    IF S = {} \/ Len(kept) >= maxCorners THEN kept
    ELSE LET i == strongest(img, S)
             ok == \A n \in 1..Len(kept) : Abs(kept[n] - i) >= minDistance
         IN selectCorners(img, S \ {i}, IF ok THEN Append(kept, i) ELSE kept)

goodFeaturesToTrack(img) ==
    LET corners == selectCorners(img, cornerCandidates(img), <<>>)
    IN IF corners = <<>> THEN None ELSE Some(corners)

\* ---- cv2.circle ----
circle(img, u) ==
    [i \in 1..Width |-> IF Abs(i - u) = radius THEN Marker ELSE img[i]]

\* ---- cv2.KeyPoint ----
KeyPoint(u) == [pt |-> u, size |-> keypointSize]

\* ---- ORB compute ----
insideBorder(kp) == kp.pt - 1 >= edgeThreshold /\ kp.pt - 1 < Width - edgeThreshold

RECURSIVE runByImageBorder(_)
runByImageBorder(kps) ==
    IF kps = <<>> THEN <<>>
    ELSE (IF insideBorder(Head(kps)) THEN <<Head(kps)>> ELSE <<>>)
         \o runByImageBorder(Tail(kps))

Pow2(j) == IF j = 0 THEN 1 ELSE IF j = 1 THEN 2 ELSE IF j = 2 THEN 4 ELSE 8

RECURSIVE briefBits(_, _, _)
briefBits(img, u, j) ==
    IF j >= 2 * edgeThreshold THEN 0
    ELSE (IF img[u - edgeThreshold + j] < img[u - edgeThreshold + j + 1]
          THEN Pow2(j % 4) ELSE 0)
         + briefBits(img, u, j + 1)

orbCompute(img, keypoints) ==
    LET kept == runByImageBorder(keypoints)
    IN [keypoints |-> kept,
        descriptors |-> [n \in 1..Len(kept) |-> briefBits(img, kept[n].pt, 0)]]

\* ---- Display.find_orbs ----
RECURSIVE drawMarkers(_, _)
drawMarkers(img, features) ==
    IF features = <<>> THEN img
    ELSE drawMarkers(circle(img, Head(features)), Tail(features))

\* the frame handed to orb.compute (lines 62-64 have drawn on it)
orbInput(img, features) == drawMarkers(img, features)

\* err: "TypeError" when iterating over None (no corner found);
\* corners: how many corners the detector returned
find_orbs(frame) ==
    LET features == goodFeaturesToTrack(frame)
    IN IF features = None
       THEN [err |-> "TypeError", corners |-> 0, kd |-> None]
       ELSE LET corners == features[1]
                keypoints == [n \in 1..Len(corners) |-> KeyPoint(corners[n])]
                marked == orbInput(frame, corners)
            IN [err |-> "none", corners |-> Len(corners),
                kd |-> Some(orbCompute(marked, keypoints))]

\* ---- cv2.BFMatcher.knnMatch ----
DMatch(q, t, d) == [queryIdx |-> q - 1, trainIdx |-> t - 1, distance |-> d]

\* NORM_L2 between two one-byte descriptor rows
norm(a, b) == Abs(a - b)

nearest(d, train, used) ==
    CHOOSE t \in DOMAIN train \ used :
        \A o \in DOMAIN train \ used :
            \/ norm(d, train[t]) < norm(d, train[o])
            \/ norm(d, train[t]) = norm(d, train[o]) /\ t <= o

RECURSIVE kBest(_, _, _, _, _)
kBest(q, d, train, used, k) ==
    IF k = 0 \/ used = DOMAIN train THEN <<>>
    ELSE LET t == nearest(d, train, used)
         IN <<DMatch(q, t, norm(d, train[t]))>> \o kBest(q, d, train, used \cup {t}, k - 1)

knnMatch(query, train, k) ==
    IF query = <<>> \/ train = <<>> THEN <<>>
    ELSE [q \in 1..Len(query) |-> kBest(q, query[q], train, {}, k)]

\* ---- Display.find_matches ----
TruthyAlways(self_last) == TRUE

\* truth value of self.last: None is false, the two-key dict is true
Truthy(self_last) == self_last # None

RatioTestInclusive(m, n) == 4 * m.distance <= 3 * n.distance

\* m.distance < 0.75 * n.distance, in quarters
RatioTest(m, n) == 4 * m.distance < 3 * n.distance

AcceptUnique(good, m, n) ==
    IF RatioTest(m, n) /\ \A g \in DOMAIN good : good[g][1].trainIdx # m.trainIdx
    THEN Append(good, <<m>>) ELSE good

\* lines 85-86
Accept(good, m, n) == IF RatioTest(m, n) THEN Append(good, <<m>>) ELSE good

knnArgsSelf(descriptors, self_last) == [query |-> descriptors, train |-> descriptors]

\* line 83: knnMatch(descriptors, self.last["descriptors"], k=2)
knnArgs(descriptors, self_last) ==
    [query |-> descriptors,
     train |-> IF self_last = None THEN <<>> ELSE self_last[1].descriptors]

RECURSIVE goodMatches(_, _)
goodMatches(matches, good) ==
    IF matches = <<>> THEN good
    ELSE goodMatches(Tail(matches), Accept(good, Head(matches)[1], Head(matches)[2]))

\* err: "ValueError" when a row of knnMatch does not unpack into (m, n)
find_matches(self_last, descriptors) ==
    IF Truthy(self_last)
    THEN LET args == knnArgs(descriptors, self_last)
             matches == knnMatch(args.query, args.train, knnK)
         IN IF \E q \in DOMAIN matches : Len(matches[q]) # 2
            THEN [err |-> "ValueError", consulted |-> TRUE, query |-> args.query,
                  train |-> args.train, matches |-> <<>>]
            ELSE [err |-> "none", consulted |-> TRUE, query |-> args.query,
                  train |-> args.train, matches |-> goodMatches(matches, <<>>)]
    ELSE [err |-> "none", consulted |-> FALSE, query |-> descriptors,
          train |-> <<>>, matches |-> <<>>]

\* ---- Display.draw ----
NewLastIfMatched(old, kd, matches) ==
    IF matches = <<>> /\ old # None THEN old
    ELSE Some([keypoints |-> kd.keypoints, descriptors |-> kd.descriptors])

\* line 106: self.last = {"keypoints": keypoints, "descriptors": descriptors}
NewLast(old, kd, matches) ==
    Some([keypoints |-> kd.keypoints, descriptors |-> kd.descriptors])

NoCall ==
    [err |-> "none", corners |-> 0, kd |-> None, hadLast |-> FALSE,
     consulted |-> FALSE, query |-> <<>>, train |-> <<>>, matches |-> <<>>, quit |-> FALSE]

\* lines 103-104 for every frame the capture can deliver: draw reads the frame
\* only through find_orbs(process_frame(frame))
FrameResults == {find_orbs(process_frame(frame)) : frame \in Frames}

\* lines 105-113, orbs being what lines 103-104 computed for the frame
draw(orbs, quit, n) ==
    IF orbs.err # "none"
    THEN /\ pc' = "crashed"
         /\ obs' = [NoCall EXCEPT !.err = orbs.err]
         /\ UNCHANGED <<last, updated, presented>>
    ELSE \* line 105: matches = self.find_matches(descriptors)
         \E fm \in {find_matches(last, orbs.kd[1].descriptors)} :
            LET kd == orbs.kd[1]
                seen == [NoCall EXCEPT !.corners = orbs.corners, !.kd = orbs.kd,
                                       !.hadLast = (last # None),
                                       !.consulted = fm.consulted, !.query = fm.query,
                                       !.train = fm.train, !.err = fm.err]
            IN IF fm.err # "none"
               THEN /\ pc' = "crashed"
                    /\ obs' = seen
                    /\ UNCHANGED <<last, updated, presented>>
               ELSE /\ last' = NewLast(last, kd, fm.matches)
                    /\ updated' = Append(updated, n)
                    /\ obs' = [seen EXCEPT !.matches = fm.matches, !.quit = quit]
                    /\ IF quit
                       THEN pc' = "exited" /\ UNCHANGED presented
                       ELSE pc' = "loop" /\ presented' = Append(presented, n)

\* ---- main.py ----
AfterFailedReadContinue == "loop"

\* line 16: break
AfterFailedRead == "done"

Init ==
    /\ pc = "loop"
    /\ opened \in BOOLEAN
    /\ last = None
    /\ nread = 0
    /\ failedRead = FALSE
    /\ passed = <<>>
    /\ updated = <<>>
    /\ presented = <<>>
    /\ prev = None
    /\ obs = NoCall

\* lines 11-14: ret is true, the frame goes to display.draw
ReadFrame ==
    /\ pc = "loop"
    /\ opened
    /\ nread < MaxFrames
    /\ \E orbs \in FrameResults, quit \in BOOLEAN :
          /\ nread' = nread + 1
          /\ passed' = Append(passed, nread + 1)
          /\ prev' = obs.kd
          /\ draw(orbs, quit, nread + 1)
    /\ UNCHANGED <<opened, failedRead>>

\* lines 11-16: ret is false
ReadFail ==
    /\ pc = "loop"
    /\ opened
    /\ failedRead' = TRUE
    /\ pc' = AfterFailedRead
    /\ UNCHANGED <<opened, last, nread, passed, updated, presented, prev, obs>>

\* line 11: the capture is not opened
NotOpened ==
    /\ pc = "loop"
    /\ ~opened
    /\ pc' = "done"
    /\ UNCHANGED <<opened, last, nread, failedRead, passed, updated, presented, prev, obs>>

Next == ReadFrame \/ ReadFail \/ NotOpened

Spec == Init /\ [][Next]_vars

\* ---- find_orbs applied to one frame ----
OrbsInit ==
    /\ pc = "find_orbs"
    /\ obs \in {[frame |-> frame, returned |-> FALSE,
                  orbs |-> [err |-> "none", corners |-> 0, kd |-> None]] :
                 frame \in Frames}
    /\ opened = TRUE
    /\ last = None
    /\ nread = 0
    /\ failedRead = FALSE
    /\ passed = <<>>
    /\ updated = <<>>
    /\ presented = <<>>
    /\ prev = None

CallFindOrbs ==
    /\ pc = "find_orbs"
    /\ pc' = "returned"
    /\ obs' = [obs EXCEPT !.orbs = find_orbs(process_frame(obs.frame)), !.returned = TRUE]
    /\ UNCHANGED <<opened, last, nread, failedRead, passed, updated, presented, prev>>

SpecOrbs == OrbsInit /\ [][CallFindOrbs]_vars

\* ---- properties ----
SetMin(S) == CHOOSE x \in S : \A y \in S : x <= y

Called == passed # <<>>
MatcherRan == Called /\ obs.err # "TypeError"
Completed == Called /\ obs.err = "none"

d1(d, train) == SetMin({norm(d, train[t]) : t \in DOMAIN train})

d2(d, train) ==
    LET t1 == CHOOSE t \in DOMAIN train : norm(d, train[t]) = d1(d, train)
    IN SetMin({norm(d, train[t]) : t \in DOMAIN train \ {t1}})

hasMatch(q) == \E n \in DOMAIN obs.matches : obs.matches[n][1].queryIdx = q - 1

\* C1: once draw has processed a frame, self.last is exactly the (keypoints,
\* descriptors) find_orbs returned for that frame, with or without matches.
StateReplaced == Completed => (last = obs.kd /\ updated = passed)

ReplacedWithoutMatch ==
    /\ Completed /\ Len(passed) >= 2
    /\ obs.consulted /\ obs.query # <<>> /\ obs.matches = <<>>
    /\ prev # obs.kd /\ last = obs.kd

\* C2: find_matches with self.last None returns no match, whatever the size of
\* the descriptor set, and does not call the matcher.
EmptyStateNoMatches ==
    (MatcherRan /\ ~obs.hadLast) =>
        (obs.err = "none" /\ obs.matches = <<>> /\ ~obs.consulted)

FirstFrameTwoDescriptors ==
    MatcherRan /\ ~obs.hadLast /\ Len(obs.query) = 2 /\ obs.matches = <<>>

\* C3: with two candidates at distances d1 <= d2, a current descriptor gets a
\* match exactly when d1 < 0.75 * d2; d1 = 0.75 * d2 is rejected.
RatioTestExact ==
    (Completed /\ obs.consulted /\ Len(obs.train) >= 2) =>
        \A q \in DOMAIN obs.query :
            hasMatch(q) <=> (4 * d1(obs.query[q], obs.train) < 3 * d2(obs.query[q], obs.train))

RatioBoundaryRejected ==
    /\ Completed /\ obs.consulted /\ Len(obs.train) >= 2
    /\ \E q \in DOMAIN obs.query :
          /\ d2(obs.query[q], obs.train) > 0
          /\ 4 * d1(obs.query[q], obs.train) = 3 * d2(obs.query[q], obs.train)
          /\ ~hasMatch(q)

\* C4: a frame in which the corner detector finds no corner gives an empty
\* keypoint sequence and draw completes for it.
ZeroCornersHandled ==
    (Called /\ obs.corners = 0) =>
        /\ obs.err = "none"
        /\ obs.kd = Some([keypoints |-> <<>>, descriptors |-> <<>>])
        /\ pc # "crashed"

\* C5: with a previous frame processed, fewer than 2 previous descriptors or
\* no current descriptor makes find_matches return normally with no match.
UndersizedHandled ==
    (MatcherRan /\ obs.hadLast /\ (Len(obs.train) < 2 \/ obs.query = <<>>)) =>
        (obs.err = "none" /\ obs.matches = <<>> /\ pc # "crashed")

\* C6: find_orbs returns the keypoints and descriptors it would return had no
\* marker been drawn on the frame.
unmarkedOrbs(frame) ==
    LET features == goodFeaturesToTrack(frame)
    IN IF features = None THEN None
       ELSE Some(orbCompute(frame, [n \in 1..Len(features[1]) |-> KeyPoint(features[1][n])]))

MarkersCosmetic ==
    (pc = "returned" /\ obs.orbs.err = "none") =>
        obs.orbs.kd = unmarkedOrbs(process_frame(obs.frame))

\* C7: a quit signal ends the run only after the frame being processed has
\* been presented; no frame has its state stored and its rendering skipped.
QuitAfterPresenting == presented = updated

\* C8: the loop hands draw the frames read before the first failed read, each
\* once and in order, leaves normally on the failed read and reads no more.
LoopPassesFramesInOrder ==
    /\ [](passed = [i \in 1..nread |-> i])
    /\ [](failedRead => pc = "done")
    /\ [][failedRead => (nread' = nread /\ passed' = passed)]_vars

StoppedAfterTwoFrames ==
    failedRead /\ pc = "done" /\ nread = 2 /\ passed = <<1, 2>>

\* C9: one decision per current descriptor, in the order of the current
\* descriptors, each for its nearest candidate, with no one-to-one enforcement.
MatchesPerDescriptor ==
    (Completed /\ obs.consulted) =>
        /\ \A n \in DOMAIN obs.matches :
              /\ Len(obs.matches[n]) = 1
              /\ obs.matches[n][1].queryIdx + 1 \in DOMAIN obs.query
              /\ obs.matches[n][1].trainIdx + 1 \in DOMAIN obs.train
              /\ obs.matches[n][1].distance =
                    norm(obs.query[obs.matches[n][1].queryIdx + 1],
                         obs.train[obs.matches[n][1].trainIdx + 1])
              /\ obs.matches[n][1].distance =
                    d1(obs.query[obs.matches[n][1].queryIdx + 1], obs.train)
        /\ \A a, b \in DOMAIN obs.matches :
              a < b => obs.matches[a][1].queryIdx < obs.matches[b][1].queryIdx
        /\ \A q1, q2 \in DOMAIN obs.query :
              obs.query[q1] = obs.query[q2] => (hasMatch(q1) <=> hasMatch(q2))

SharedTrainIdx ==
    /\ Completed /\ obs.consulted
    /\ \E a, b \in DOMAIN obs.matches :
          a # b /\ obs.matches[a][1].trainIdx = obs.matches[b][1].trainIdx

\* C10: frame N is matched against the descriptors find_orbs produced for
\* frame N-1; find_matches does not change self.last.
MatchedAgainstPrevious ==
    /\ obs.consulted => (prev # None /\ obs.train = prev[1].descriptors)
    /\ (MatcherRan /\ prev # None) => obs.consulted
    /\ (Called /\ obs.err = "ValueError") => last = prev

ThirdFrameMatched ==
    /\ Completed /\ Len(passed) = 3 /\ obs.consulted
    /\ obs.train # <<>> /\ obs.query # <<>> /\ obs.train # obs.query

====
